---- MODULE Spec2Model ----
(***************************************************************************)
(* Model of run_docker.py: the Archon build-and-launch script.             *)
(*                                                                         *)
(* main() is a straight line of external commands.  Each run of main() is  *)
(* a process r with a program counter pc[r]; one action models one step of *)
(* main() (one external command, or one block between two commands).  The  *)
(* environment (platform, listeners on the ports, the .env file, the       *)
(* container already running, the result of every external command) is     *)
(* nondeterministic.                                                       *)
(*                                                                         *)
(* Spec is one run.  SpecPair is two independent runs of main() in the     *)
(* same environment that may differ in platform and daemon-info text, so   *)
(* in the detected Docker environment.                                     *)
(***************************************************************************)
EXTENDS Integers, Sequences, FiniteSets, TLC

\* Longest daemon-info text, in words of InfoWords.
MaxWords == 2

----------------------------------------------------------------------------
(* Text: a Python str is a tuple of code points.  str.lower() follows the  *)
(* Unicode 14.0.0 tables of CPython.                                        *)

\* The simple lower-case mappings, as runs <<first, last, step, delta>>:
\* every code point first, first + step, ..., last lowers to itself + delta.
LowerRuns ==
    <<
       <<65, 90, 1, 32>>, <<192, 214, 1, 32>>, <<216, 222, 1, 32>>,
       <<256, 302, 2, 1>>, <<306, 310, 2, 1>>, <<313, 327, 2, 1>>,
       <<330, 374, 2, 1>>, <<376, 376, 1, -121>>, <<377, 381, 2, 1>>,
       <<385, 385, 1, 210>>, <<386, 388, 2, 1>>, <<390, 390, 1, 206>>,
       <<391, 391, 1, 1>>, <<393, 394, 1, 205>>, <<395, 395, 1, 1>>,
       <<398, 398, 1, 79>>, <<399, 399, 1, 202>>, <<400, 400, 1, 203>>,
       <<401, 401, 1, 1>>, <<403, 403, 1, 205>>, <<404, 404, 1, 207>>,
       <<406, 406, 1, 211>>, <<407, 407, 1, 209>>, <<408, 408, 1, 1>>,
       <<412, 412, 1, 211>>, <<413, 413, 1, 213>>, <<415, 415, 1, 214>>,
       <<416, 420, 2, 1>>, <<422, 422, 1, 218>>, <<423, 423, 1, 1>>,
       <<425, 425, 1, 218>>, <<428, 428, 1, 1>>, <<430, 430, 1, 218>>,
       <<431, 431, 1, 1>>, <<433, 434, 1, 217>>, <<435, 437, 2, 1>>,
       <<439, 439, 1, 219>>, <<440, 440, 1, 1>>, <<444, 444, 1, 1>>,
       <<452, 452, 1, 2>>, <<453, 453, 1, 1>>, <<455, 455, 1, 2>>,
       <<456, 456, 1, 1>>, <<458, 458, 1, 2>>, <<459, 475, 2, 1>>,
       <<478, 494, 2, 1>>, <<497, 497, 1, 2>>, <<498, 500, 2, 1>>,
       <<502, 502, 1, -97>>, <<503, 503, 1, -56>>, <<504, 542, 2, 1>>,
       <<544, 544, 1, -130>>, <<546, 562, 2, 1>>, <<570, 570, 1, 10795>>,
       <<571, 571, 1, 1>>, <<573, 573, 1, -163>>, <<574, 574, 1, 10792>>,
       <<577, 577, 1, 1>>, <<579, 579, 1, -195>>, <<580, 580, 1, 69>>,
       <<581, 581, 1, 71>>, <<582, 590, 2, 1>>, <<880, 882, 2, 1>>,
       <<886, 886, 1, 1>>, <<895, 895, 1, 116>>, <<902, 902, 1, 38>>,
       <<904, 906, 1, 37>>, <<908, 908, 1, 64>>, <<910, 911, 1, 63>>,
       <<913, 929, 1, 32>>, <<932, 939, 1, 32>>, <<975, 975, 1, 8>>,
       <<984, 1006, 2, 1>>, <<1012, 1012, 1, -60>>, <<1015, 1015, 1, 1>>,
       <<1017, 1017, 1, -7>>, <<1018, 1018, 1, 1>>, <<1021, 1023, 1, -130>>,
       <<1024, 1039, 1, 80>>, <<1040, 1071, 1, 32>>, <<1120, 1152, 2, 1>>,
       <<1162, 1214, 2, 1>>, <<1216, 1216, 1, 15>>, <<1217, 1229, 2, 1>>,
       <<1232, 1326, 2, 1>>, <<1329, 1366, 1, 48>>, <<4256, 4293, 1, 7264>>,
       <<4295, 4295, 1, 7264>>, <<4301, 4301, 1, 7264>>,
       <<5024, 5103, 1, 38864>>, <<5104, 5109, 1, 8>>,
       <<7312, 7354, 1, -3008>>, <<7357, 7359, 1, -3008>>,
       <<7680, 7828, 2, 1>>, <<7838, 7838, 1, -7615>>, <<7840, 7934, 2, 1>>,
       <<7944, 7951, 1, -8>>, <<7960, 7965, 1, -8>>, <<7976, 7983, 1, -8>>,
       <<7992, 7999, 1, -8>>, <<8008, 8013, 1, -8>>, <<8025, 8031, 2, -8>>,
       <<8040, 8047, 1, -8>>, <<8072, 8079, 1, -8>>, <<8088, 8095, 1, -8>>,
       <<8104, 8111, 1, -8>>, <<8120, 8121, 1, -8>>, <<8122, 8123, 1, -74>>,
       <<8124, 8124, 1, -9>>, <<8136, 8139, 1, -86>>, <<8140, 8140, 1, -9>>,
       <<8152, 8153, 1, -8>>, <<8154, 8155, 1, -100>>, <<8168, 8169, 1, -8>>,
       <<8170, 8171, 1, -112>>, <<8172, 8172, 1, -7>>,
       <<8184, 8185, 1, -128>>, <<8186, 8187, 1, -126>>,
       <<8188, 8188, 1, -9>>, <<8486, 8486, 1, -7517>>,
       <<8490, 8490, 1, -8383>>, <<8491, 8491, 1, -8262>>,
       <<8498, 8498, 1, 28>>, <<8544, 8559, 1, 16>>, <<8579, 8579, 1, 1>>,
       <<9398, 9423, 1, 26>>, <<11264, 11311, 1, 48>>,
       <<11360, 11360, 1, 1>>, <<11362, 11362, 1, -10743>>,
       <<11363, 11363, 1, -3814>>, <<11364, 11364, 1, -10727>>,
       <<11367, 11371, 2, 1>>, <<11373, 11373, 1, -10780>>,
       <<11374, 11374, 1, -10749>>, <<11375, 11375, 1, -10783>>,
       <<11376, 11376, 1, -10782>>, <<11378, 11378, 1, 1>>,
       <<11381, 11381, 1, 1>>, <<11390, 11391, 1, -10815>>,
       <<11392, 11490, 2, 1>>, <<11499, 11501, 2, 1>>,
       <<11506, 11506, 1, 1>>, <<42560, 42604, 2, 1>>,
       <<42624, 42650, 2, 1>>, <<42786, 42798, 2, 1>>,
       <<42802, 42862, 2, 1>>, <<42873, 42875, 2, 1>>,
       <<42877, 42877, 1, -35332>>, <<42878, 42886, 2, 1>>,
       <<42891, 42891, 1, 1>>, <<42893, 42893, 1, -42280>>,
       <<42896, 42898, 2, 1>>, <<42902, 42920, 2, 1>>,
       <<42922, 42922, 1, -42308>>, <<42923, 42923, 1, -42319>>,
       <<42924, 42924, 1, -42315>>, <<42925, 42925, 1, -42305>>,
       <<42926, 42926, 1, -42308>>, <<42928, 42928, 1, -42258>>,
       <<42929, 42929, 1, -42282>>, <<42930, 42930, 1, -42261>>,
       <<42931, 42931, 1, 928>>, <<42932, 42946, 2, 1>>,
       <<42948, 42948, 1, -48>>, <<42949, 42949, 1, -42307>>,
       <<42950, 42950, 1, -35384>>, <<42951, 42953, 2, 1>>,
       <<42960, 42960, 1, 1>>, <<42966, 42968, 2, 1>>,
       <<42997, 42997, 1, 1>>, <<65313, 65338, 1, 32>>,
       <<66560, 66599, 1, 40>>, <<66736, 66771, 1, 40>>,
       <<66928, 66964, 2, 39>>, <<66929, 66938, 1, 39>>,
       <<66941, 66954, 1, 39>>, <<66957, 66962, 1, 39>>,
       <<66965, 66965, 1, 39>>, <<68736, 68786, 1, 64>>,
       <<71840, 71871, 1, 32>>, <<93760, 93791, 1, 32>>,
       <<125184, 125217, 1, 34>>
    >>

\* Cased code points that are not case-ignorable.
Cased ==
    (65..90) \cup (97..122) \cup (192..214) \cup (216..246) \cup (248..442)
    \cup (444..447) \cup (452..659) \cup (661..687) \cup (880..883)
    \cup (891..893) \cup (904..906) \cup (910..929) \cup (931..1013)
    \cup (1015..1153) \cup (1162..1327) \cup (1329..1366) \cup (1376..1416)
    \cup (4256..4293) \cup (4304..4346) \cup (4349..4351) \cup (5024..5109)
    \cup (5112..5117) \cup (7296..7304) \cup (7312..7354) \cup (7357..7359)
    \cup (7424..7467) \cup (7531..7543) \cup (7545..7578) \cup (7680..7957)
    \cup (7960..7965) \cup (7968..8005) \cup (8008..8013) \cup (8016..8023)
    \cup (8031..8061) \cup (8064..8116) \cup (8118..8124) \cup (8130..8132)
    \cup (8134..8140) \cup (8144..8147) \cup (8150..8155) \cup (8160..8172)
    \cup (8178..8180) \cup (8182..8188) \cup (8458..8467) \cup (8473..8477)
    \cup (8490..8493) \cup (8495..8500) \cup (8508..8511) \cup (8517..8521)
    \cup (8544..8575) \cup (9398..9449) \cup (11264..11387)
    \cup (11390..11492) \cup (11499..11502) \cup (11520..11557)
    \cup (42560..42605) \cup (42624..42651) \cup (42786..42863)
    \cup (42865..42887) \cup (42891..42894) \cup (42896..42954)
    \cup (42965..42969) \cup (43824..43866) \cup (43872..43880)
    \cup (43888..43967) \cup (64256..64262) \cup (64275..64279)
    \cup (65313..65338) \cup (65345..65370) \cup (66560..66639)
    \cup (66736..66771) \cup (66776..66811) \cup (66928..66938)
    \cup (66940..66954) \cup (66956..66962) \cup (66967..66977)
    \cup (66979..66993) \cup (66995..67001) \cup (68736..68786)
    \cup (68800..68850) \cup (71840..71903) \cup (93760..93823)
    \cup (119808..119892) \cup (119894..119964) \cup (119977..119980)
    \cup (119982..119993) \cup (119997..120003) \cup (120005..120069)
    \cup (120071..120074) \cup (120077..120084) \cup (120086..120092)
    \cup (120094..120121) \cup (120123..120126) \cup (120128..120132)
    \cup (120138..120144) \cup (120146..120485) \cup (120488..120512)
    \cup (120514..120538) \cup (120540..120570) \cup (120572..120596)
    \cup (120598..120628) \cup (120630..120654) \cup (120656..120686)
    \cup (120688..120712) \cup (120714..120744) \cup (120746..120770)
    \cup (120772..120779) \cup (122624..122633) \cup (122635..122654)
    \cup (125184..125251) \cup (127280..127305) \cup (127312..127337)
    \cup (127344..127369) \cup {170, 181, 186, 886, 887, 895, 902, 908,
      4295, 4301, 8025, 8027, 8029, 8126, 8450, 8455, 8469, 8484, 8486,
      8488, 8505, 8526, 8579, 8580, 11506, 11507, 11559, 11565, 42960,
      42961, 42963, 42997, 42998, 43002, 66964, 66965, 67003, 67004, 119966,
      119967, 119970, 119973, 119974, 119995, 120134}

\* Case-ignorable code points.
CaseIgnorable ==
    (688..879) \cup (1155..1161) \cup (1425..1469) \cup (1536..1541)
    \cup (1552..1562) \cup (1611..1631) \cup (1750..1757) \cup (1759..1768)
    \cup (1770..1773) \cup (1840..1866) \cup (1958..1968) \cup (2027..2037)
    \cup (2070..2093) \cup (2137..2139) \cup (2200..2207) \cup (2249..2306)
    \cup (2369..2376) \cup (2385..2391) \cup (2497..2500) \cup (2635..2637)
    \cup (2753..2757) \cup (2810..2815) \cup (2881..2884) \cup (3134..3136)
    \cup (3142..3144) \cup (3146..3149) \cup (3393..3396) \cup (3538..3540)
    \cup (3636..3642) \cup (3654..3662) \cup (3764..3772) \cup (3784..3789)
    \cup (3953..3966) \cup (3968..3972) \cup (3981..3991) \cup (3993..4028)
    \cup (4141..4144) \cup (4146..4151) \cup (4190..4192) \cup (4209..4212)
    \cup (4957..4959) \cup (5906..5908) \cup (6071..6077) \cup (6089..6099)
    \cup (6155..6159) \cup (6432..6434) \cup (6457..6459) \cup (6744..6750)
    \cup (6757..6764) \cup (6771..6780) \cup (6832..6862) \cup (6912..6915)
    \cup (6966..6970) \cup (7019..7027) \cup (7074..7077) \cup (7083..7085)
    \cup (7151..7153) \cup (7212..7219) \cup (7288..7293) \cup (7376..7378)
    \cup (7380..7392) \cup (7394..7400) \cup (7468..7530) \cup (7579..7679)
    \cup (8127..8129) \cup (8141..8143) \cup (8157..8159) \cup (8173..8175)
    \cup (8203..8207) \cup (8234..8238) \cup (8288..8292) \cup (8294..8303)
    \cup (8336..8348) \cup (8400..8432) \cup (11503..11505)
    \cup (11744..11775) \cup (12330..12333) \cup (12337..12341)
    \cup (12441..12446) \cup (12540..12542) \cup (42232..42237)
    \cup (42607..42610) \cup (42612..42621) \cup (42652..42655)
    \cup (42752..42785) \cup (42888..42890) \cup (42994..42996)
    \cup (43232..43249) \cup (43302..43309) \cup (43335..43345)
    \cup (43392..43394) \cup (43446..43449) \cup (43561..43566)
    \cup (43698..43700) \cup (43867..43871) \cup (43881..43883)
    \cup (64434..64450) \cup (65024..65039) \cup (65056..65071)
    \cup (65529..65531) \cup (66422..66426) \cup (67456..67461)
    \cup (67463..67504) \cup (67506..67514) \cup (68097..68099)
    \cup (68108..68111) \cup (68152..68154) \cup (68900..68903)
    \cup (69446..69456) \cup (69506..69509) \cup (69688..69702)
    \cup (69759..69761) \cup (69811..69814) \cup (69888..69890)
    \cup (69927..69931) \cup (69933..69940) \cup (70070..70078)
    \cup (70089..70092) \cup (70191..70193) \cup (70371..70378)
    \cup (70502..70508) \cup (70512..70516) \cup (70712..70719)
    \cup (70722..70724) \cup (70835..70840) \cup (71090..71093)
    \cup (71219..71226) \cup (71344..71349) \cup (71453..71455)
    \cup (71458..71461) \cup (71463..71467) \cup (71727..71735)
    \cup (72148..72151) \cup (72193..72202) \cup (72243..72248)
    \cup (72251..72254) \cup (72273..72278) \cup (72281..72283)
    \cup (72330..72342) \cup (72752..72758) \cup (72760..72765)
    \cup (72850..72871) \cup (72874..72880) \cup (73009..73014)
    \cup (73023..73029) \cup (78896..78904) \cup (92912..92916)
    \cup (92976..92982) \cup (92992..92995) \cup (94095..94111)
    \cup (110576..110579) \cup (110581..110587) \cup (113824..113827)
    \cup (118528..118573) \cup (118576..118598) \cup (119143..119145)
    \cup (119155..119170) \cup (119173..119179) \cup (119210..119213)
    \cup (119362..119364) \cup (121344..121398) \cup (121403..121452)
    \cup (121499..121503) \cup (121505..121519) \cup (122880..122886)
    \cup (122888..122904) \cup (122907..122913) \cup (122918..122922)
    \cup (123184..123197) \cup (123628..123631) \cup (125136..125142)
    \cup (125252..125259) \cup (127995..127999) \cup (917536..917631)
    \cup (917760..917999) \cup {39, 46, 58, 94, 96, 168, 173, 175, 180, 183,
      184, 884, 885, 890, 900, 901, 903, 1369, 1375, 1471, 1473, 1474, 1476,
      1477, 1479, 1524, 1564, 1600, 1648, 1807, 1809, 2042, 2045, 2184,
      2192, 2193, 2362, 2364, 2381, 2402, 2403, 2417, 2433, 2492, 2509,
      2530, 2531, 2558, 2561, 2562, 2620, 2625, 2626, 2631, 2632, 2641,
      2672, 2673, 2677, 2689, 2690, 2748, 2759, 2760, 2765, 2786, 2787,
      2817, 2876, 2879, 2893, 2901, 2902, 2914, 2915, 2946, 3008, 3021,
      3072, 3076, 3132, 3157, 3158, 3170, 3171, 3201, 3260, 3263, 3270,
      3276, 3277, 3298, 3299, 3328, 3329, 3387, 3388, 3405, 3426, 3427,
      3457, 3530, 3542, 3633, 3761, 3782, 3864, 3865, 3893, 3895, 3897,
      3974, 3975, 4038, 4153, 4154, 4157, 4158, 4184, 4185, 4226, 4229,
      4230, 4237, 4253, 4348, 5938, 5939, 5970, 5971, 6002, 6003, 6068,
      6069, 6086, 6103, 6109, 6211, 6277, 6278, 6313, 6439, 6440, 6450,
      6679, 6680, 6683, 6742, 6752, 6754, 6783, 6823, 6964, 6972, 6978,
      7040, 7041, 7080, 7081, 7142, 7144, 7145, 7149, 7222, 7223, 7405,
      7412, 7416, 7417, 7544, 8125, 8189, 8190, 8216, 8217, 8228, 8231,
      8305, 8319, 11388, 11389, 11631, 11647, 11823, 12293, 12347, 40981,
      42508, 42623, 42736, 42737, 42864, 43000, 43001, 43010, 43014, 43019,
      43045, 43046, 43052, 43204, 43205, 43263, 43443, 43452, 43453, 43471,
      43493, 43494, 43569, 43570, 43573, 43574, 43587, 43596, 43632, 43644,
      43696, 43703, 43704, 43710, 43711, 43713, 43741, 43756, 43757, 43763,
      43764, 43766, 44005, 44008, 44013, 64286, 65043, 65106, 65109, 65279,
      65287, 65294, 65306, 65342, 65344, 65392, 65438, 65439, 65507, 66045,
      66272, 68101, 68102, 68159, 68325, 68326, 69291, 69292, 69633, 69744,
      69747, 69748, 69817, 69818, 69821, 69826, 69837, 70003, 70016, 70017,
      70095, 70196, 70198, 70199, 70206, 70367, 70400, 70401, 70459, 70460,
      70464, 70726, 70750, 70842, 70847, 70848, 70850, 70851, 71100, 71101,
      71103, 71104, 71132, 71133, 71229, 71231, 71232, 71339, 71341, 71351,
      71737, 71738, 71995, 71996, 71998, 72003, 72154, 72155, 72160, 72263,
      72344, 72345, 72767, 72882, 72883, 72885, 72886, 73018, 73020, 73021,
      73031, 73104, 73105, 73109, 73111, 73459, 73460, 94031, 94176, 94177,
      94179, 94180, 110589, 110590, 113821, 113822, 121461, 121476, 122915,
      122916, 123566, 917505}

\* str.lower() on one character other than capital sigma: a tuple, as
\* U+0130 lowers to two code points.
LowerChar(c) ==
    IF c < 128 THEN (IF c >= 65 /\ c <= 90 THEN <<c + 32>> ELSE <<c>>)
    ELSE IF c = 304 THEN <<105, 775>>
    ELSE IF \E k \in DOMAIN LowerRuns :
                /\ LowerRuns[k][1] <= c /\ c <= LowerRuns[k][2]
                /\ (c - LowerRuns[k][1]) % LowerRuns[k][3] = 0
         THEN LET k == CHOOSE k \in DOMAIN LowerRuns :
                          /\ LowerRuns[k][1] <= c /\ c <= LowerRuns[k][2]
                          /\ (c - LowerRuns[k][1]) % LowerRuns[k][3] = 0
              IN  <<c + LowerRuns[k][4]>>
         ELSE <<c>>

\* Capital sigma (U+03A3) at s[i] lowers to final sigma: the nearest
\* character before it that is not case-ignorable is cased, and the nearest
\* one after it, if any, is not.
FinalSigma(s, i) ==
    LET before == {j \in 1..(i - 1) : s[j] \notin CaseIgnorable}
        after == {j \in (i + 1)..Len(s) : s[j] \notin CaseIgnorable}
    IN  /\ before /= {}
        /\ s[CHOOSE j \in before : \A h \in before : h <= j] \in Cased
        /\ \/ after = {}
           \/ s[CHOOSE j \in after : \A h \in after : j <= h] \notin Cased

RECURSIVE LowerFrom(_, _)
LowerFrom(s, i) ==
    IF i > Len(s) THEN <<>>
    ELSE (IF s[i] = 931
          THEN (IF FinalSigma(s, i) THEN <<962>> ELSE <<963>>)
          ELSE LowerChar(s[i]))
         \o LowerFrom(s, i + 1)

\* str.lower()
Lower(s) == LowerFrom(s, 1)

\* needle in hay
Contains(needle, hay) ==
    \E i \in 0..(Len(hay) - Len(needle)) :
        SubSeq(hay, i + 1, i + Len(needle)) = needle

\* The characters str.strip() removes (str.isspace): \t \n \v \f \r,
\* FS GS RS US, space, NEL, NBSP and the Unicode spaces.
Whitespace ==
    (9..13) \cup (28..32) \cup {133, 160, 5760} \cup (8192..8202)
    \cup {8232, 8233, 8239, 8287, 12288}

RECURSIVE LStrip(_)
LStrip(s) == IF s /= <<>> /\ Head(s) \in Whitespace THEN LStrip(Tail(s)) ELSE s

RECURSIVE RStrip(_)
RStrip(s) ==
    IF s /= <<>> /\ s[Len(s)] \in Whitespace
    THEN RStrip(SubSeq(s, 1, Len(s) - 1))
    ELSE s

\* str.strip()
Strip(s) == RStrip(LStrip(s))

\* The substrings searched for by detect_windows_docker_environment.
\* "wsl"
Wsl == <<119, 115, 108>>
\* "microsoft"
Microsoft == <<109, 105, 99, 114, 111, 115, 111, 102, 116>>
\* "virtualbox"
Virtualbox == <<118, 105, 114, 116, 117, 97, 108, 98, 111, 120>>
\* "docker machine"
DockerMachine == <<100, 111, 99, 107, 101, 114, 32, 109, 97, 99, 104, 105, 110, 101>>

\* Words a daemon-info text is made of (as the daemon prints them):
\* "WSL2\n", "Microsoft\n", "VirtualBox\n", "Docker Machine\n", "linux\n".
InfoWords ==
    { <<87, 83, 76, 50, 10>>,
      <<77, 105, 99, 114, 111, 115, 111, 102, 116, 10>>,
      <<86, 105, 114, 116, 117, 97, 108, 66, 111, 120, 10>>,
      <<68, 111, 99, 107, 101, 114, 32, 77, 97, 99, 104, 105, 110, 101, 10>>,
      <<108, 105, 110, 117, 120, 10>> }

RECURSIVE TextsUpTo(_)
TextsUpTo(n) ==
    IF n = 0 THEN { <<>> }
    ELSE LET shorter == TextsUpTo(n - 1)
         IN  shorter \cup { t \o w : t \in shorter, w \in InfoWords }

\* The daemon-info texts 'docker info' may print.
InfoTexts == TextsUpTo(MaxWords)

----------------------------------------------------------------------------
(* Environment and program constants.                                      *)

Platforms == {"Windows", "Linux"}

\* What running an external command can do: "ok" exit 0; "fail" exit
\* non-zero; "nospawn" the spawn fails with FileNotFoundError (binary or cwd
\* missing); "noexec" the spawn fails with another OSError (PermissionError
\* for a docker file that is not executable, 'Exec format error').
Outcomes == {"ok", "fail", "nospawn", "noexec"}

\* The external commands of a run, named by the step that issues them.
Commands == {"check_version", "check_info", "detect_info", "build_mcp",
             "build_main", "ps", "stop", "rm", "run"}

PortA == 8501
PortB == 8100
required_ports == <<PortA, PortB>>

\* str(env_file): base_dir / ".env"
EnvFilePath == "<base_dir>/.env"
McpDir == "<base_dir>/mcp"
BaseDir == "<base_dir>"
NoCwd == "<cwd>"

AddHostFlag == <<"--add-host", "host.docker.internal:host-gateway">>

\* Where a required port can have its listener: on IPv4 localhost, on every
\* IPv4 address, on IPv6 localhost only (which stands for every address an
\* IPv4 connect to localhost does not reach); or nowhere.
NoListener == "none"
Addresses == {"127.0.0.1", "0.0.0.0", "::1"}

\* stdout of 'docker ps -q --filter name=archon-container': "3f2a\n" or "".
PsStdout(running) == IF running THEN <<51, 102, 50, 97, 10>> ELSE <<>>

VARIABLES
    pc,                 \* pc[r]: the step run r executes next
    status,             \* status[r]: "running", "returned" or "raised"
    rc,                 \* rc[r]: value returned by main() once status[r] = "returned"
    platform,           \* platform[r]: platform.system()
    info_stdout,        \* info_stdout[r]: result.stdout read by the detection (line 72),
                        \* kept while main() runs
    docker_env,         \* docker_env[r]: main's docker_env, "unset" before line 97
    unavailable_ports,  \* unavailable_ports[r]: main's list (line 102)
    env_args,           \* env_args[r]: main's env_args (lines 113-116)
    log,                \* log[r]: the external commands issued, in order
    listener,           \* listener[p]: the address the listener of port p is
                        \* bound to, NoListener when the port is free
    env_exists,         \* a .env file exists beside the script
    container_running,  \* a container named archon-container is running
    outcome             \* outcome[c]: what command c does in this environment

vars == <<pc, status, rc, platform, info_stdout, docker_env, unavailable_ports,
          env_args, log, listener, env_exists, container_running, outcome>>

Runs == DOMAIN pc


----------------------------------------------------------------------------
(* The pure parts of the script.                                           *)

\* subprocess.run(..., check=True) raises: CalledProcessError on a non-zero
\* exit (a SubprocessError), FileNotFoundError or another OSError when the
\* process cannot spawn.
RaisesUnchecked(o) == o \in {"nospawn", "noexec"}
Raises(o) == o \in {"fail", "nospawn", "noexec"}

\* The except clauses of check_docker (lines 52-57): SubprocessError and
\* FileNotFoundError, no other OSError.
CheckDockerCatches(o) == o \in {"fail", "nospawn"}

\* The exception is a subprocess.SubprocessError (lines 52, 145).
IsSubprocessError(o) == o = "fail"

\* process.returncode of run_command (line 32) for a process that spawned.
ReturnCode(o) == IF o = "ok" THEN 0 ELSE 1

\* 'run_command(...) != 0' of lines 123, 129, 171.
FailedOnlyNegative(returncode) == returncode < 0
Failed(returncode) == returncode /= 0

\* connect_ex(('localhost', port)) on an AF_INET socket (lines 87-88): the
\* probe goes to 127.0.0.1 and returns 0 when a listener bound to
\* 127.0.0.1 or to 0.0.0.0 accepts it, an errno otherwise.
ConnectEx(port) == IF listener[port] \in {"127.0.0.1", "0.0.0.0"} THEN 0 ELSE 111

\* is_port_available: connect_ex(...) != 0.
is_port_available_inverted(port) == ConnectEx(port) = 0
is_port_available(port) == ConnectEx(port) /= 0

\* [port for port in required_ports if not is_port_available(port)]
UnavailablePorts ==
    SelectSeq(required_ports, LAMBDA port : ~is_port_available(port))

\* Lines 72-80 of detect_windows_docker_environment.
ClassifyInfoToolboxFirst(stdout) ==
    IF Contains(Virtualbox, Lower(stdout)) \/ Contains(DockerMachine, Lower(stdout))
    THEN "docker-toolbox"
    ELSE "docker-desktop"
ClassifyInfo(stdout) ==
    IF Contains(Wsl, Lower(stdout)) \/ Contains(Microsoft, Lower(stdout))
    THEN "docker-desktop"
    ELSE IF Contains(Virtualbox, Lower(stdout)) \/ Contains(DockerMachine, Lower(stdout))
         THEN "docker-toolbox"
         ELSE "docker-desktop"

\* Lines 113-118: env_args.
EnvArgsNever(exists) == <<>>
EnvArgsAlways(exists) == <<"--env-file", EnvFilePath>>
EnvArgs(exists) == IF exists THEN <<"--env-file", EnvFilePath>> ELSE <<>>

\* 'if result.stdout.strip()' of line 141.
ContainerFoundInverted(stdout) == Strip(stdout) = <<>>
ContainerFound(stdout) == Strip(stdout) /= <<>>

\* Lines 150-169: the run command.
RunCmdToolboxHostNet(env, args) ==
    <<"docker", "run", "-d", "--name", "archon-container",
      "-p", "8501:8501", "-p", "8100:8100">>
    \o (IF env = "docker-desktop" THEN AddHostFlag
        ELSE IF env = "docker-toolbox" THEN <<"--network", "host">> ELSE <<>>)
    \o args
    \o <<"archon:latest">>
RunCmd(env, args) ==
    <<"docker", "run", "-d", "--name", "archon-container",
      "-p", "8501:8501", "-p", "8100:8100">>
    \o (IF env = "docker-desktop" THEN AddHostFlag ELSE <<>>)
    \o args
    \o <<"archon:latest">>

\* The fixed command lines (lines 38, 46, 67, 123, 129, 136, 143, 144).
Argv(c) ==
    CASE c = "check_version" -> <<"docker", "--version">>
      [] c = "check_info"    -> <<"docker", "info">>
      [] c = "detect_info"   -> <<"docker", "info">>
      [] c = "build_mcp"     -> <<"docker", "build", "-t", "archon-mcp:latest", ".">>
      [] c = "build_main"    -> <<"docker", "build", "-t", "archon:latest", ".">>
      [] c = "ps"            -> <<"docker", "ps", "-q", "--filter", "name=archon-container">>
      [] c = "stop"          -> <<"docker", "stop", "archon-container">>
      [] c = "rm"            -> <<"docker", "rm", "archon-container">>

\* The cwd= argument of each command.
Cwd(c) ==
    CASE c = "build_mcp"  -> McpDir
      [] c = "build_main" -> BaseDir
      [] OTHER            -> NoCwd

\* Exit status of the interpreter (line 196): exit(main()), and 1 when an
\* exception leaves main().
ExitCode(r) == IF status[r] = "raised" THEN 1 ELSE rc[r]

----------------------------------------------------------------------------
(* Steps.                                                                  *)

\* Run r issues command c with command line argv; the environment answers o.
\* A command answers the same in every run of the same environment.
Issue(r, c, argv, o) ==
    /\ o \in Outcomes
    /\ outcome[c] \in {"unset", o}
    /\ outcome' = [outcome EXCEPT ![c] = o]
    /\ log' = [log EXCEPT ![r] = Append(@, [cmd |-> c, argv |-> argv,
                                           cwd |-> Cwd(c), out |-> o])]

\* 'return code' in main().
Return(r, code) ==
    /\ pc' = [pc EXCEPT ![r] = "done"]
    /\ info_stdout' = [info_stdout EXCEPT ![r] = <<>>]
    /\ status' = [status EXCEPT ![r] = "returned"]
    /\ rc' = [rc EXCEPT ![r] = code]

\* An exception leaves main().
Raise(r) ==
    /\ pc' = [pc EXCEPT ![r] = "done"]
    /\ info_stdout' = [info_stdout EXCEPT ![r] = <<>>]
    /\ status' = [status EXCEPT ![r] = "raised"]
    /\ UNCHANGED rc

Goto(r, next) ==
    /\ pc' = [pc EXCEPT ![r] = next]
    /\ UNCHANGED <<status, rc, info_stdout>>

\* run_command (lines 13-32): Popen raises when the process cannot spawn
\* and nothing in run_command or main() catches it.
RunCommandRaises(o) == o \in {"nospawn", "noexec"}

\* Runs of a pair execute one after the other (they are independent
\* processes; nothing is shared but the environment's answers).
Turn(r) == \A q \in Runs : q < r => status[q] /= "running"

\* The part of the state no step of main() changes.
environment == <<listener, env_exists, container_running, platform>>

\* check_docker, 'docker --version' (lines 37-42, 52-57, 93-94).
CheckDockerVersion(r) ==
    /\ pc[r] = "check_version"
    /\ Turn(r)
    /\ \E o \in Outcomes :
        /\ Issue(r, "check_version", Argv("check_version"), o)
        /\ IF ~Raises(o) THEN Goto(r, "check_info")
           ELSE IF CheckDockerCatches(o) THEN Return(r, 1)
           ELSE Raise(r)
    /\ UNCHANGED <<environment, docker_env, unavailable_ports, env_args>>

\* check_docker, 'docker info' (lines 45-51, 52-57, 93-94).
CheckDockerInfo(r) ==
    /\ pc[r] = "check_info"
    /\ Turn(r)
    /\ \E o \in Outcomes :
        /\ Issue(r, "check_info", Argv("check_info"), o)
        /\ IF ~Raises(o) THEN Goto(r, "detect")
           ELSE IF CheckDockerCatches(o) THEN Return(r, 1)
           ELSE Raise(r)
    /\ UNCHANGED <<environment, docker_env, unavailable_ports, env_args>>

\* detect_windows_docker_environment off Windows (lines 61-62, 97).
DetectStandard(r) ==
    /\ pc[r] = "detect"
    /\ Turn(r)
    /\ platform[r] /= "Windows"
    /\ docker_env' = [docker_env EXCEPT ![r] = "standard"]
    /\ Goto(r, "ports")
    /\ UNCHANGED <<environment, unavailable_ports, env_args, log, outcome>>

\* detect_windows_docker_environment on Windows (lines 64-83, 97).
DetectWindows(r) ==
    /\ pc[r] = "detect"
    /\ Turn(r)
    /\ platform[r] = "Windows"
    /\ \E o \in Outcomes :
        /\ Issue(r, "detect_info", Argv("detect_info"), o)
        /\ IF Raises(o)
           THEN /\ docker_env' = [docker_env EXCEPT ![r] = "docker-desktop"]
                /\ UNCHANGED info_stdout
           ELSE \E text \in InfoTexts :
                /\ info_stdout' = [info_stdout EXCEPT ![r] = text]
                /\ docker_env' = [docker_env EXCEPT ![r] = ClassifyInfo(text)]
    /\ pc' = [pc EXCEPT ![r] = "ports"]
    /\ UNCHANGED <<status, rc>>
    /\ UNCHANGED <<environment, unavailable_ports, env_args>>

\* The port check (lines 100-106).
PortCheck(r) ==
    /\ pc[r] = "ports"
    /\ Turn(r)
    /\ unavailable_ports' = [unavailable_ports EXCEPT ![r] = UnavailablePorts]
    /\ IF UnavailablePorts /= <<>> THEN Return(r, 1) ELSE Goto(r, "env_file")
    /\ UNCHANGED <<environment, docker_env, env_args, log, outcome>>

\* The .env discovery (lines 108-118).
EnvFile(r) ==
    /\ pc[r] = "env_file"
    /\ Turn(r)
    /\ env_args' = [env_args EXCEPT ![r] = EnvArgs(env_exists)]
    /\ Goto(r, "build_mcp")
    /\ UNCHANGED <<environment, docker_env, unavailable_ports, log, outcome>>

\* Build of archon-mcp:latest (lines 120-125).
BuildMcp(r) ==
    /\ pc[r] = "build_mcp"
    /\ Turn(r)
    /\ \E o \in Outcomes :
        /\ Issue(r, "build_mcp", Argv("build_mcp"), o)
        /\ IF RunCommandRaises(o) THEN Raise(r)
           ELSE IF Failed(ReturnCode(o)) THEN Return(r, 1)
           ELSE Goto(r, "build_main")
    /\ UNCHANGED <<environment, docker_env, unavailable_ports, env_args>>

\* Build of archon:latest (lines 127-131).
BuildMain(r) ==
    /\ pc[r] = "build_main"
    /\ Turn(r)
    /\ \E o \in Outcomes :
        /\ Issue(r, "build_main", Argv("build_main"), o)
        /\ IF RunCommandRaises(o) THEN Raise(r)
           ELSE IF Failed(ReturnCode(o)) THEN Return(r, 1)
           ELSE Goto(r, "ps")
    /\ UNCHANGED <<environment, docker_env, unavailable_ports, env_args>>

\* The query for a running archon-container (lines 133-141, 145-146).
Ps(r) ==
    /\ pc[r] = "ps"
    /\ Turn(r)
    /\ \E o \in Outcomes :
        /\ Issue(r, "ps", Argv("ps"), o)
        /\ IF Raises(o)
           THEN IF IsSubprocessError(o) THEN Goto(r, "run") ELSE Raise(r)
           ELSE IF ContainerFound(PsStdout(container_running))
                THEN Goto(r, "stop")
                ELSE Goto(r, "run")
    /\ UNCHANGED <<environment, docker_env, unavailable_ports, env_args>>

\* 'docker stop archon-container' (line 143); the return code is dropped.
Stop(r) ==
    /\ pc[r] = "stop"
    /\ Turn(r)
    /\ \E o \in Outcomes :
        /\ Issue(r, "stop", Argv("stop"), o)
        /\ IF RunCommandRaises(o) THEN Raise(r) ELSE Goto(r, "rm")
    /\ UNCHANGED <<environment, docker_env, unavailable_ports, env_args>>

\* 'docker rm archon-container' (line 144); the return code is dropped.
Rm(r) ==
    /\ pc[r] = "rm"
    /\ Turn(r)
    /\ \E o \in Outcomes :
        /\ Issue(r, "rm", Argv("rm"), o)
        /\ IF RunCommandRaises(o) THEN Raise(r) ELSE Goto(r, "run")
    /\ UNCHANGED <<environment, docker_env, unavailable_ports, env_args>>

\* 'docker run' (lines 148-173).
Run(r) ==
    /\ pc[r] = "run"
    /\ Turn(r)
    /\ \E o \in Outcomes :
        /\ Issue(r, "run", RunCmd(docker_env[r], env_args[r]), o)
        /\ IF RunCommandRaises(o) THEN Raise(r)
           ELSE IF Failed(ReturnCode(o)) THEN Return(r, 1)
           ELSE Goto(r, "post_run")
    /\ UNCHANGED <<environment, docker_env, unavailable_ports, env_args>>

\* The pause and the help text (lines 175-193).
PostRun(r) ==
    /\ pc[r] = "post_run"
    /\ Turn(r)
    /\ Return(r, 0)
    /\ UNCHANGED <<environment, docker_env, unavailable_ports, env_args,
                   log, outcome>>

InitRuns(rs) ==
    /\ pc = [r \in rs |-> "check_version"]
    /\ status = [r \in rs |-> "running"]
    /\ rc = [r \in rs |-> 0]
    /\ platform \in [rs -> Platforms]
    /\ info_stdout = [r \in rs |-> <<>>]
    /\ docker_env = [r \in rs |-> "unset"]
    /\ unavailable_ports = [r \in rs |-> <<>>]
    /\ env_args = [r \in rs |-> <<>>]
    /\ log = [r \in rs |-> <<>>]
    /\ listener \in [{PortA, PortB} -> Addresses \cup {NoListener}]
    /\ env_exists \in BOOLEAN
    /\ container_running \in BOOLEAN
    /\ outcome = [c \in Commands |-> "unset"]

Init == InitRuns({1})

InitPair == InitRuns({1, 2})

Next ==
    \/ \E r \in Runs : CheckDockerVersion(r)
    \/ \E r \in Runs : CheckDockerInfo(r)
    \/ \E r \in Runs : DetectStandard(r)
    \/ \E r \in Runs : DetectWindows(r)
    \/ \E r \in Runs : PortCheck(r)
    \/ \E r \in Runs : EnvFile(r)
    \/ \E r \in Runs : BuildMcp(r)
    \/ \E r \in Runs : BuildMain(r)
    \/ \E r \in Runs : Ps(r)
    \/ \E r \in Runs : Stop(r)
    \/ \E r \in Runs : Rm(r)
    \/ \E r \in Runs : Run(r)
    \/ \E r \in Runs : PostRun(r)

Spec == Init /\ [][Next]_vars

SpecPair == InitPair /\ [][Next]_vars

----------------------------------------------------------------------------
(* Vocabulary of the properties.                                           *)

Finished(r) == status[r] /= "running"

\* Run r has issued command c.
Issued(r, c) == \E i \in DOMAIN log[r] : log[r][i].cmd = c

\* Run r has issued command c and the environment answered o.
IssuedWith(r, c, o) ==
    \E i \in DOMAIN log[r] : log[r][i].cmd = c /\ log[r][i].out = o

\* Every c1 of the log of r comes before every c2.
Before(r, c1, c2) ==
    \A i, j \in DOMAIN log[r] :
        log[r][i].cmd = c1 /\ log[r][j].cmd = c2 => i < j

\* How often run r issued command c.
Count(r, c) == Cardinality({i \in DOMAIN log[r] : log[r][i].cmd = c})

\* The command line has word a followed by word b.
HasPair(argv, a, b) ==
    \E i \in 1..(Len(argv) - 1) : argv[i] = a /\ argv[i + 1] = b

HasWord(argv, a) == \E i \in DOMAIN argv : argv[i] = a

HasAddHost(argv) == HasPair(argv, AddHostFlag[1], AddHostFlag[2])

\* The port check of run r has been executed.
PortChecked(r) == docker_env[r] /= "unset" /\ pc[r] /= "ports"

\* Commands of the build, replace and run steps.
LaunchCommands == {"build_mcp", "build_main", "ps", "stop", "rm", "run"}

\* Commands whose failure is fatal by the error taxonomy.
FatalCommands == {"check_version", "check_info", "build_mcp", "build_main", "run"}

----------------------------------------------------------------------------
\* The required ports that have a listener.
Occupied == {p \in {PortA, PortB} : listener[p] /= NoListener}

\* C1: once the port check has run, a non-empty set of occupied required
\* ports means main() has returned 1 with no build, ps, stop, rm or run
\* command issued and the reported list is exactly the occupied ports, each
\* once; with no port occupied the list is empty and a return of 1 is due
\* to a failed command, never to the port check.
C1_PortConflictAborts ==
    \A r \in Runs :
        PortChecked(r) =>
            IF Occupied /= {}
            THEN /\ status[r] = "returned" /\ rc[r] = 1
                 /\ \A c \in LaunchCommands : ~Issued(r, c)
                 /\ {unavailable_ports[r][i] : i \in DOMAIN unavailable_ports[r]}
                        = Occupied
                 /\ Len(unavailable_ports[r]) = Cardinality(Occupied)
            ELSE /\ unavailable_ports[r] = <<>>
                 /\ (status[r] = "returned" /\ rc[r] = 1
                        => \E i \in DOMAIN log[r] : log[r][i].out /= "ok")

\* C2: when 'docker --version' or 'docker info' of check_docker fails, the
\* run is over with a non-zero exit code and no detection, build, ps, stop,
\* rm or run command was issued; when the binary is absent or the command
\* exits non-zero, main() has returned 1.
C2_NoEngineNoLaunch ==
    \A r \in Runs :
        \A i \in DOMAIN log[r] :
            (log[r][i].cmd \in {"check_version", "check_info"} /\ log[r][i].out /= "ok")
            => /\ Finished(r)
               /\ ExitCode(r) /= 0
               /\ i = Len(log[r])
               /\ \A c \in LaunchCommands \cup {"detect_info"} : ~Issued(r, c)
               /\ (log[r][i].out \in {"fail", "nospawn"}
                      => status[r] = "returned" /\ rc[r] = 1)

C2_Witness ==
    \E r \in Runs :
        /\ IssuedWith(r, "check_version", "nospawn")
        /\ status[r] = "returned" /\ rc[r] = 1

\* C3: every 'docker run' command line has '--env-file <path of .env>' if
\* and only if the .env file exists, has no '--env-file' word otherwise, and
\* a run without a .env file that returns 1 does so because a command failed
\* or a port is occupied.
C3_EnvFileFlag ==
    \A r \in Runs :
        /\ \A i \in DOMAIN log[r] :
              log[r][i].cmd = "run" =>
                  /\ HasPair(log[r][i].argv, "--env-file", EnvFilePath) <=> env_exists
                  /\ HasWord(log[r][i].argv, "--env-file") <=> env_exists
        /\ (~env_exists /\ status[r] = "returned" /\ rc[r] = 1
              => \/ \E i \in DOMAIN log[r] : log[r][i].out /= "ok"
                 \/ unavailable_ports[r] /= <<>>)

C3_Witness ==
    \E r \in Runs :
        /\ env_exists
        /\ \E i \in DOMAIN log[r] :
              /\ log[r][i].cmd = "run"
              /\ HasPair(log[r][i].argv, "--env-file", EnvFilePath)

\* C4: on Windows a daemon-info text containing "wsl" (any case) resolves
\* to docker-desktop; off Windows the environment is standard; and a
\* 'docker run' command line has the --add-host flag if and only if the
\* environment is docker-desktop.
C4_HostAlias ==
    \A r \in Runs :
        /\ (platform[r] = "Windows" /\ IssuedWith(r, "detect_info", "ok")
               /\ Contains(Wsl, Lower(info_stdout[r]))
              => docker_env[r] = "docker-desktop")
        /\ (platform[r] /= "Windows" /\ docker_env[r] /= "unset"
              => docker_env[r] = "standard")
        /\ \A i \in DOMAIN log[r] :
              log[r][i].cmd = "run" =>
                  (HasAddHost(log[r][i].argv) <=> docker_env[r] = "docker-desktop")

\* A text naming both VirtualBox and WSL, and the run command issued.
C4_Witness ==
    \E r \in Runs :
        /\ platform[r] = "Windows"
        /\ Contains(Wsl, Lower(info_stdout[r]))
        /\ Contains(Virtualbox, Lower(info_stdout[r]))
        /\ docker_env[r] = "docker-desktop"
        /\ \E i \in DOMAIN log[r] :
              log[r][i].cmd = "run" /\ HasAddHost(log[r][i].argv)

\* C5 as claimed: whenever a container is running at the replace step, stop
\* and rm have both been issued, in that order, before 'docker run'; with
\* none running no stop or rm is issued and the run step follows.
C5_AsClaimed ==
    \A r \in Runs :
        Issued(r, "run") =>
            IF container_running
            THEN /\ Issued(r, "stop") /\ Issued(r, "rm")
                 /\ Before(r, "stop", "rm") /\ Before(r, "rm", "run")
            ELSE ~Issued(r, "stop") /\ ~Issued(r, "rm")

\* C5 amended: when the ps query succeeds and lists the container, stop is
\* the next command, and 'docker run' is issued only after stop and then rm
\* (whatever their exit codes); when the query lists nothing or exits
\* non-zero, no stop or rm is issued and the run step is next.
C5_ReplaceWhenListed ==
    \A r \in Runs :
        /\ (IssuedWith(r, "ps", "ok") /\ container_running
              => /\ pc[r] /= "stop" => Issued(r, "stop")
                 /\ Issued(r, "run")
                      => /\ Issued(r, "stop") /\ Issued(r, "rm")
                         /\ Before(r, "ps", "stop")
                         /\ Before(r, "stop", "rm")
                         /\ Before(r, "rm", "run"))
        /\ (IssuedWith(r, "ps", "fail") \/ (IssuedWith(r, "ps", "ok") /\ ~container_running)
              => /\ ~Issued(r, "stop") /\ ~Issued(r, "rm")
                 /\ pc[r] = "run" \/ Issued(r, "run"))

C5_Witness ==
    \E r \in Runs :
        /\ container_running
        /\ IssuedWith(r, "ps", "ok")
        /\ IssuedWith(r, "stop", "fail")
        /\ Issued(r, "rm")
        /\ IssuedWith(r, "run", "ok")

\* C6: with no port occupied, no .env file, no container running and every
\* command succeeding, a finished run has issued exactly the two builds
\* (archon-mcp:latest, then archon:latest), no stop, no rm, one run command
\* without --env-file, and has returned 0.
C6_EndToEnd ==
    \A r \in Runs :
        (/\ Finished(r)
         /\ Occupied = {} /\ ~env_exists /\ ~container_running
         /\ \A i \in DOMAIN log[r] : log[r][i].out = "ok")
        => /\ status[r] = "returned" /\ rc[r] = 0
           /\ Count(r, "build_mcp") = 1 /\ Count(r, "build_main") = 1
           /\ Before(r, "build_mcp", "build_main")
           /\ \A i \in DOMAIN log[r] :
                 /\ log[r][i].cmd = "build_mcp"
                      => /\ HasPair(log[r][i].argv, "-t", "archon-mcp:latest")
                         /\ log[r][i].cwd = McpDir
                 /\ log[r][i].cmd = "build_main"
                      => /\ HasPair(log[r][i].argv, "-t", "archon:latest")
                         /\ log[r][i].cwd = BaseDir
                 /\ HasWord(log[r][i].argv, "build")
                      => log[r][i].cmd \in {"build_mcp", "build_main"}
                 /\ log[r][i].cmd = "run" => ~HasWord(log[r][i].argv, "--env-file")
           /\ Count(r, "stop") = 0 /\ Count(r, "rm") = 0
           /\ Count(r, "run") = 1

C6_Witness ==
    \E r \in Runs :
        /\ Finished(r)
        /\ Occupied = {} /\ ~env_exists /\ ~container_running
        /\ \A i \in DOMAIN log[r] : log[r][i].out = "ok"
        /\ Issued(r, "run")
        /\ rc[r] = 0

\* No command line is issued again after it failed.
NoRetry(r) ==
    \A i, j \in DOMAIN log[r] :
        i < j /\ log[r][i].out /= "ok" => log[r][j].argv /= log[r][i].argv

\* C7 as claimed: a failed command outside the replace step, the daemon
\* info of the environment detection included, ends the run with a
\* non-zero exit code, and nothing is retried.
C7_AsClaimed ==
    \A r \in Runs :
        /\ NoRetry(r)
        /\ (Finished(r) /\ \E i \in DOMAIN log[r] :
                              /\ log[r][i].cmd \in FatalCommands \cup {"detect_info"}
                              /\ log[r][i].out /= "ok")
              => ExitCode(r) /= 0

\* C7 amended: a failed version check, daemon info of check_docker, build
\* or run command is the last command of the run, which ends at once with
\* a non-zero exit code; a failed daemon info of the environment detection
\* resolves to docker-desktop and the run goes on; nothing is retried.
C7_FatalFailures ==
    \A r \in Runs :
        /\ NoRetry(r)
        /\ \A i \in DOMAIN log[r] :
              log[r][i].cmd \in FatalCommands /\ log[r][i].out /= "ok"
                  => /\ i = Len(log[r])
                     /\ Finished(r)
                     /\ ExitCode(r) /= 0
        /\ (\E i \in DOMAIN log[r] :
                log[r][i].cmd = "detect_info" /\ log[r][i].out /= "ok")
              => /\ docker_env[r] = "docker-desktop"
                 /\ (Len(log[r]) = 3 => pc[r] = "ports" \/ PortChecked(r))
                 /\ (Finished(r) /\ unavailable_ports[r] = <<>>
                        => Issued(r, "build_mcp"))

C7_Witness ==
    \E r \in Runs :
        /\ IssuedWith(r, "build_mcp", "ok")
        /\ IssuedWith(r, "build_main", "fail")
        /\ status[r] = "returned" /\ rc[r] = 1

\* C8: no exception leaves main().
C8_NoExceptionEscapes == \A r \in Runs : status[r] /= "raised"

\* The steps that issue commands, in program order.
CommandOrder == <<"check_version", "check_info", "detect_info", "build_mcp",
                  "build_main", "ps", "stop", "rm", "run">>

Rank(c) == CHOOSE k \in DOMAIN CommandOrder : CommandOrder[k] = c

\* C9: the commands are issued in program order, after the port check and
\* the environment detection; build B only after build A returned 0; ps,
\* stop, rm and run only after both builds returned 0; and a run that got
\* to the replace step always gets to 'docker run', whatever ps, stop and
\* rm did.
C9_OrderAndPreconditions ==
    \A r \in Runs :
        /\ \A i, j \in DOMAIN log[r] :
              i < j => Rank(log[r][i].cmd) < Rank(log[r][j].cmd)
        /\ (\E c \in LaunchCommands : Issued(r, c))
              => /\ IssuedWith(r, "check_version", "ok")
                 /\ IssuedWith(r, "check_info", "ok")
                 /\ docker_env[r] /= "unset"
                 /\ PortChecked(r) /\ unavailable_ports[r] = <<>>
                 /\ \A p \in {PortA, PortB} : is_port_available(p)
                 /\ env_args[r] = EnvArgs(env_exists)
        /\ Issued(r, "build_main") => IssuedWith(r, "build_mcp", "ok")
        /\ (\E c \in {"ps", "stop", "rm", "run"} : Issued(r, c))
              => IssuedWith(r, "build_mcp", "ok") /\ IssuedWith(r, "build_main", "ok")
        /\ (Finished(r) /\ Issued(r, "ps")) => Issued(r, "run")

----------------------------------------------------------------------------
(* Two runs in one environment.                                            *)

\* The command line without the --add-host flag and its value.
RECURSIVE StripAddHost(_)
StripAddHost(argv) ==
    IF argv = <<>> THEN <<>>
    ELSE IF Len(argv) >= 2 /\ argv[1] = AddHostFlag[1] /\ argv[2] = AddHostFlag[2]
         THEN StripAddHost(SubSeq(argv, 3, Len(argv)))
         ELSE <<Head(argv)>> \o StripAddHost(Tail(argv))

\* The command lines run r issued, in order, without the --add-host flag.
CommandLines(r) == [i \in DOMAIN log[r] |-> StripAddHost(log[r][i].argv)]

\* The same, without the daemon-info query of the environment detection.
CommandLinesAfterDetection(r) ==
    LET kept == SelectSeq(log[r], LAMBDA e : e.cmd /= "detect_info")
    IN  [i \in DOMAIN kept |-> StripAddHost(kept[i].argv)]

\* C10 as claimed: two finished runs of one environment issue the same
\* command lines, the --add-host flag aside, and exit with the same code.
C10_AsClaimed ==
    \A r, q \in Runs :
        Finished(r) /\ Finished(q)
            => /\ CommandLines(r) = CommandLines(q)
               /\ ExitCode(r) = ExitCode(q)

\* C10 amended: two finished runs of one environment issue the same
\* command lines, the --add-host flag and the daemon-info query of the
\* detection (issued on Windows only) aside, end the same way and exit
\* with the same code.
C10_EnvOnlyAffectsFlag ==
    \A r, q \in Runs :
        r < q /\ Finished(r) /\ Finished(q)
            => /\ CommandLinesAfterDetection(r) = CommandLinesAfterDetection(q)
               /\ status[r] = status[q]
               /\ ExitCode(r) = ExitCode(q)

C10_Witness ==
    \E r, q \in Runs :
        /\ docker_env[r] = "docker-desktop"
        /\ docker_env[q] = "docker-toolbox"
        /\ IssuedWith(r, "run", "ok") /\ IssuedWith(q, "run", "ok")
        /\ status[r] = "returned" /\ status[q] = "returned"
        /\ rc[r] = 0 /\ rc[q] = 0

====
